---- MODULE Spec2Model ----
(***************************************************************************)
(* Model of load_tests/validation/validate.go: the delivery validator of   *)
(* the load tests.  One sequential Go process: main checks its             *)
(* configuration, builds the map of expected record ids, reads the chosen  *)
(* destination (S3 listing + fetch, or CloudWatch GetLogEvents paging),    *)
(* and prints the result counters.                                         *)
(*                                                                         *)
(* Go strings that the program parses, formats or slices are sequences of  *)
(* one-character strings; Go *string / *bool values are sequences of       *)
(* length 0 (nil) or 1 (the pointed-to value).                             *)
(***************************************************************************)
EXTENDS Integers, Sequences, FiniteSets, TLC

(***************************************************************************)
(* Bounds of the model.                                                    *)
(***************************************************************************)
\* successful paging / listing responses the destination gives in one run
MaxCalls == 3
\* log events in one GetLogEvents page
MaxEvents == 1
\* object keys in one ListObjectsV2 page
MaxKeys == 1
\* pieces (lines and newlines) in one S3 object body
MaxBody == 1
\* largest valid record count given on the command line
MaxN == 3
\* rate-limit faults the destination gives in a row
MaxFaults == 2
\* lines of the stream read in one piece, and the largest count read with it
MaxLines == 5

(***************************************************************************)
(* Program constants.                                                      *)
(***************************************************************************)
idCounterBase == 10000000

\* the "First 8 char is the unique record ID" slice bound
RecordIdLen == 8

\* os.Exit status of exitErrorf, and of a Go runtime panic
ExitError == 1
ExitPanic == 2

(***************************************************************************)
(* Go values.                                                              *)
(***************************************************************************)
Nil == <<>>

Ptr(v) == <<v>>

\* aws.StringValue: the pointed-to string, "" for nil
StringValue(p) == IF p = Nil THEN "" ELSE p[1]

\* aws.BoolValue: the pointed-to bool, false for nil
BoolValue(p) == IF p = Nil THEN FALSE ELSE p[1]

DigitChars == <<"0", "1", "2", "3", "4", "5", "6", "7", "8", "9">>

RECURSIVE NatDigits(_)
NatDigits(n) ==
    IF n < 10 THEN <<DigitChars[n + 1]>>
    ELSE Append(NatDigits(n \div 10), DigitChars[(n % 10) + 1])

\* strconv.Itoa
Itoa(n) == IF n < 0 THEN <<"-">> \o NatDigits(0 - n) ELSE NatDigits(n)

IsDigit(c) == \E d \in 1..10 : DigitChars[d] = c

DigitVal(c) == (CHOOSE d \in 1..10 : DigitChars[d] = c) - 1

RECURSIVE DigitsVal(_)
DigitsVal(s) ==
    IF s = <<>> THEN 0
    ELSE DigitsVal(SubSeq(s, 1, Len(s) - 1)) * 10 + DigitVal(s[Len(s)])

\* strconv.Atoi: optional sign, then one or more decimal digits; 0 and an
\* error for anything else
Atoi(s) ==
    LET signed == s # <<>> /\ s[1] \in {"+", "-"}
        body   == IF signed THEN Tail(s) ELSE s
        ok     == body # <<>> /\ \A i \in 1..Len(body) : IsDigit(body[i])
    IN  IF ~ok THEN [val |-> 0, err |-> TRUE]
        ELSE [val |-> IF signed /\ s[1] = "-" THEN 0 - DigitsVal(body)
                      ELSE DigitsVal(body),
              err |-> FALSE]

\* Go integer division truncates toward zero
GoDiv(a, b) ==
    LET abs(x) == IF x < 0 THEN 0 - x ELSE x
        q      == abs(a) \div abs(b)
    IN  IF (a < 0) = (b < 0) THEN q ELSE 0 - q

(***************************************************************************)
(* What the destination can hold.  The producer writes                     *)
(* 8CharUniqueID_13CharTimestamp_RandomString; the texts below are a       *)
(* record that is expected, a second one of exactly eight characters, one  *)
(* whose id no run expects, one shorter than an id, and the empty text.    *)
(***************************************************************************)
LogFirst == Itoa(idCounterBase) \o <<"_", "a">>

LogSecond == Itoa(idCounterBase + 1)

LogForeign == <<"9", "9", "9", "9", "9", "9", "9", "9", "_">>

LogShort == <<"1", "0", "0", "0", "0", "0", "0">>

LogEmpty == <<>>

Logs == {LogFirst, LogSecond, LogForeign, LogShort, LogEmpty}

\* forward / continuation cursors the destination hands out: the service
\* gives cursors of at least one character, so a cursor is absent (nil) or
\* one of these
Tokens == {"t1", "t2"}

TokenPtrs == {Nil} \cup {Ptr(t) : t \in Tokens}

SeqsUpTo(S, n) == UNION {[1..k -> S] : k \in 0..n}

\* GetLogEventsOutput: the events' messages and the next forward cursor
CwResponses ==
    [Events : SeqsUpTo(Logs, MaxEvents), NextForwardToken : TokenPtrs]

\* object keys a listing can name, in the order S3 lists them
Keys == <<"k1", "k2", "k3">>

\* the Contents of a listing: up to MaxKeys different keys in listing order
KeyLists ==
    {ks \in SeqsUpTo(1..Len(Keys), MaxKeys) :
        \A i \in 1..(Len(ks) - 1) : ks[i] < ks[i + 1]}

S3Contents == {[i \in 1..Len(ks) |-> Keys[ks[i]]] : ks \in KeyLists}

\* ListObjectsV2Output: S3 sends NextContinuationToken with a truncated
\* listing and only then; IsTruncated may be absent from the output
S3Listings ==
    [Contents : S3Contents, IsTruncated : {Nil, Ptr(FALSE)},
     NextContinuationToken : {Nil}]
    \cup
    [Contents : S3Contents, IsTruncated : {Ptr(TRUE)},
     NextContinuationToken : {Ptr(t) : t \in Tokens}]

EmptyListing ==
    [Contents |-> <<>>, IsTruncated |-> Nil, NextContinuationToken |-> Nil]

\* An object body is a sequence of pieces: a newline, the JSON text of a
\* Message with the given Log, or text that is no JSON.
Newline == [kind |-> "newline", Log |-> <<>>]

Garbage == [kind |-> "garbage", Log |-> <<>>]

Json(log) == [kind |-> "json", Log |-> log]

\* the texts the objects hold
S3Logs == {LogFirst, LogSecond, LogShort, LogEmpty}

Pieces == {Newline, Garbage} \cup {Json(l) : l \in S3Logs}

Bodies == SeqsUpTo(Pieces, MaxBody)

RECURSIVE Split(_)
\* strings.Split(body, "\n"): the fragments between the newlines, at least one
Split(body) ==
    IF \A i \in 1..Len(body) : body[i] # Newline THEN <<body>>
    ELSE LET i == CHOOSE j \in 1..Len(body) :
                    /\ body[j] = Newline
                    /\ \A k \in 1..(j - 1) : body[k] # Newline
         IN  <<SubSeq(body, 1, i - 1)>> \o Split(SubSeq(body, i + 1, Len(body)))

\* json.Unmarshal([]byte(d), &message): one JSON value and nothing else
Unmarshal(d) ==
    IF Len(d) = 1 /\ d[1].kind = "json"
    THEN [err |-> FALSE, Log |-> d[1].Log]
    ELSE [err |-> TRUE, Log |-> <<>>]

\* the output value the SDK hands back next to an error
EmptyResponse == [Events |-> <<>>, NextForwardToken |-> Nil]

ErrNone == "nil"
ErrThrottle == "ThrottlingException: Rate exceeded"
ErrOther == "AccessDeniedException"

\* every error taken for a rate-limit fault
IsAnyError(e) == e # ErrNone

\* strings.Contains(err.Error(), "ThrottlingException: Rate exceeded")
IsThrottling(e) == e = ErrThrottle

(***************************************************************************)
(* The process: command line and environment.                              *)
(***************************************************************************)
EnvValues == {"", "set"}

Destinations == {"", "s3", "cloudwatch", "kinesis"}

\* os.Args[1]: missing, valid counts, zero, negative, not a number
ArgRecords ==
    {<<>>, <<"0">>, <<"-", "1">>, <<"x">>} \cup {Itoa(n) : n \in 1..MaxN}

ArgDelays == {"", "5"}

VARIABLES
    region, bucket, logGroup, prefix, destination,  \* os.Getenv values
    inputRecord, logDelay,                          \* os.Args[1], os.Args[2]
    pc,                     \* position of the process in the program
    totalInputRecord,       \* main: the parsed record count
    inputMap,               \* main: record id -> found in the destination
    totalRecordFound,       \* main: lines counted by the validation
    forwardToken,           \* validate_cloudwatch: cursor for the next call
    input,                  \* the request value of the call being made
    response,               \* validate_cloudwatch: last GetLogEvents output
    err,                    \* validate_cloudwatch: last GetLogEvents error
    ei,                     \* validate_cloudwatch: events iterated so far
    cwRecoredCounter,       \* validate_cloudwatch: events counted
    continuationToken,      \* validate_s3: cursor for the next listing
    listing,                \* validate_s3: last ListObjectsV2 output
    ci,                     \* validate_s3: objects of the listing done
    s3RecordCounter,        \* validate_s3: lines counted
    s3ObjectCounter,        \* validate_s3: objects fetched
    stdout,                 \* lines printed, as <<label, value>>
    stderr,                 \* the failure printed, "" when none
    exitStatus,             \* -1 while running, else the exit status
    sent,                   \* destination: the last request received
    pages,                  \* destination: successful pages / listings given
    stops,                  \* destination: end-of-data answers given
    lastGiven,              \* destination: cursor given with the last page
    fetched,                \* destination: keys fetched since the last listing
    throttled,              \* destination: has answered with a rate-limit fault
    attempts,               \* destination: rate-limit faults given in a row
    failedHard,             \* destination: has answered with another fault
    delivered,              \* destination: non-empty lines / events handed out
    seenIds                 \* destination: 8-character prefixes handed out

config == <<region, bucket, logGroup, prefix, destination, inputRecord, logDelay>>

mainVars == <<totalInputRecord, inputMap, totalRecordFound>>

cwVars == <<forwardToken, response, err, ei, cwRecoredCounter>>

s3Vars ==
    <<continuationToken, listing, ci, s3RecordCounter, s3ObjectCounter>>

destVars ==
    <<sent, pages, stops, lastGiven, fetched, throttled, attempts, failedHard,
      delivered, seenIds>>

outVars == <<stdout, stderr, exitStatus>>

vars == <<config, pc, mainVars, input, cwVars, s3Vars, destVars, outVars>>

NoRequest == [api |-> "none"]

\* the process as main starts, and the destination before any call
AtStart ==
    /\ pc = "main"
    /\ totalInputRecord = 0
    /\ inputMap = <<>>
    /\ totalRecordFound = 0
    /\ forwardToken = Nil
    /\ input = NoRequest
    /\ response = EmptyResponse
    /\ err = ErrNone
    /\ ei = 0
    /\ cwRecoredCounter = 0
    /\ continuationToken = Nil
    /\ listing = EmptyListing
    /\ ci = 0
    /\ s3RecordCounter = 0
    /\ s3ObjectCounter = 0
    /\ stdout = <<>>
    /\ stderr = ""
    /\ exitStatus = -1
    /\ sent = NoRequest
    /\ pages = 0
    /\ stops = 0
    /\ lastGiven = Nil
    /\ fetched = <<>>
    /\ throttled = FALSE
    /\ attempts = 0
    /\ failedHard = FALSE
    /\ delivered = 0
    /\ seenIds = {}

Init ==
    /\ region \in EnvValues
    /\ bucket \in EnvValues
    /\ logGroup \in EnvValues
    /\ prefix \in EnvValues
    /\ destination \in Destinations
    /\ inputRecord \in ArgRecords
    /\ logDelay \in ArgDelays
    /\ AtStart

\* exitErrorf: the message to stderr, os.Exit(1)
exitErrorf(msg) ==
    /\ pc' = "Terminated"
    /\ stderr' = msg
    /\ exitStatus' = ExitError
    /\ UNCHANGED stdout

\* a Go runtime panic: the goroutine trace to stderr, exit status 2
Panic(msg) ==
    /\ pc' = "Terminated"
    /\ stderr' = msg
    /\ exitStatus' = ExitPanic
    /\ UNCHANGED stdout

(***************************************************************************)
(* main                                                                    *)
(***************************************************************************)
\* main, lines 32-60: the required environment and the first argument
CheckConfig ==
    /\ pc = "main"
    /\ IF region = "" THEN exitErrorf("AWS Region required")
       ELSE IF bucket = "" THEN exitErrorf("Bucket name required")
       ELSE IF logGroup = "" THEN exitErrorf("Log group name required")
       ELSE IF prefix = "" THEN exitErrorf("Object prefix required")
       ELSE IF destination = "" THEN exitErrorf("Log destination required")
       ELSE IF inputRecord = <<>>
            THEN exitErrorf("Total input record number required")
       ELSE pc' = "build" /\ UNCHANGED outVars
    /\ UNCHANGED <<config, mainVars, input, cwVars, s3Vars, destVars>>

RECURSIVE BuildFromInclusive(_, _, _)
\* the loop with the bound i <= n
BuildFromInclusive(i, n, m) ==
    IF i <= n
    THEN LET recordId == Itoa(idCounterBase + i)
         IN  BuildFromInclusive(i + 1, n,
                 [k \in DOMAIN m \cup {recordId} |->
                     IF k = recordId THEN FALSE ELSE m[k]])
    ELSE m

RECURSIVE BuildFrom(_, _, _)
\* the loop of lines 64-67, from index i with map m
BuildFrom(i, n, m) ==
    IF i < n
    THEN LET recordId == Itoa(idCounterBase + i)
         IN  BuildFrom(i + 1, n,
                 [k \in DOMAIN m \cup {recordId} |->
                     IF k = recordId THEN FALSE ELSE m[k]])
    ELSE m

\* main, lines 61-67: the count (Atoi's error is dropped) and the map
BuildInputMap ==
    /\ pc = "build"
    /\ totalInputRecord' = Atoi(inputRecord).val
    /\ inputMap' = BuildFrom(0, totalInputRecord', <<>>)
    /\ pc' = "delay"
    /\ UNCHANGED <<config, totalRecordFound, input, cwVars, s3Vars, destVars,
                   outVars>>

\* main, lines 69-74: the second argument
CheckLogDelay ==
    /\ pc = "delay"
    /\ IF logDelay = "" THEN exitErrorf("Log delay required")
       ELSE pc' = "dispatch" /\ UNCHANGED outVars
    /\ UNCHANGED <<config, mainVars, input, cwVars, s3Vars, destVars>>

\* a destination that is neither "s3" nor "cloudwatch" refused
DispatchStrict ==
    /\ pc = "dispatch"
    /\ \/ /\ destination = "s3"
          /\ \/ pc' = "s3_list" /\ UNCHANGED outVars
             \/ exitErrorf("Unable to create new S3 client")
       \/ /\ destination = "cloudwatch"
          /\ \/ pc' = "cw_input" /\ UNCHANGED outVars
             \/ exitErrorf("Unable to create new CloudWatch client")
       \/ /\ destination \notin {"s3", "cloudwatch"}
          /\ exitErrorf("Unknown log destination")
    /\ UNCHANGED <<config, mainVars, input, cwVars, s3Vars, destVars>>

\* main, lines 75-89: the destination chosen; creating the client may fail
Dispatch ==
    /\ pc = "dispatch"
    /\ \/ /\ destination = "s3"
          /\ \/ pc' = "s3_list" /\ UNCHANGED outVars
             \/ exitErrorf("Unable to create new S3 client")
       \/ /\ destination = "cloudwatch"
          /\ \/ pc' = "cw_input" /\ UNCHANGED outVars
             \/ exitErrorf("Unable to create new CloudWatch client")
       \/ /\ destination \notin {"s3", "cloudwatch"}
          /\ pc' = "results"
          /\ UNCHANGED outVars
    /\ UNCHANGED <<config, mainVars, input, cwVars, s3Vars, destVars>>

(***************************************************************************)
(* The record check both validations make on a log text.                   *)
(***************************************************************************)
\* log[:8] is defined for a text of at least eight characters
CanSlice(log) == Len(log) >= RecordIdLen

\* the slice one character short
RecordIdShorter(log) == SubSeq(log, 1, RecordIdLen - 1)

\* recordId := log[:8]
RecordIdOf(log) == SubSeq(log, 1, RecordIdLen)

\* the flag of the id set and every other flag cleared
ObserveLastOnly(m, recordId) ==
    IF recordId \in DOMAIN m THEN [k \in DOMAIN m |-> k = recordId] ELSE m

\* the assignment without the ok check: an unknown id is inserted
ObserveInsert(m, recordId) ==
    [k \in DOMAIN m \cup {recordId} |-> IF k = recordId THEN TRUE ELSE m[k]]

\* the flag flipped, not set
ObserveToggle(m, recordId) ==
    IF recordId \in DOMAIN m THEN [m EXCEPT ![recordId] = ~m[recordId]] ELSE m

\* if _, ok := inputMap[recordId]; ok { inputMap[recordId] = true }
Observe(m, recordId) ==
    IF recordId \in DOMAIN m THEN [m EXCEPT ![recordId] = TRUE] ELSE m

(***************************************************************************)
(* validate_cloudwatch                                                     *)
(***************************************************************************)
\* lines 214-227: the request, with NextToken only when there is a cursor
CwInputFor(token) ==
    IF token = Nil
    THEN [api |-> "GetLogEvents", LogGroupName |-> logGroup,
          LogStreamName |-> prefix, NextToken |-> Nil, StartFromHead |-> TRUE]
    ELSE [api |-> "GetLogEvents", LogGroupName |-> logGroup,
          LogStreamName |-> prefix, NextToken |-> token, StartFromHead |-> TRUE]

CwBuildInput ==
    /\ pc = "cw_input"
    /\ input' = CwInputFor(forwardToken)
    /\ pc' = "cw_call"
    /\ UNCHANGED <<config, mainVars, cwVars, s3Vars, destVars, outVars>>

\* The destination answers request req of GetLogEvents: a page, a
\* rate-limit fault or another fault.
GetLogEvents(req) ==
    /\ sent' = req
    /\ \/ /\ pages < MaxCalls
          /\ \E r \in CwResponses :
                /\ response' = r
                /\ stops' = IF r.NextForwardToken = req.NextToken
                            THEN stops + 1 ELSE stops
                /\ lastGiven' = r.NextForwardToken
                /\ delivered' = delivered + Len(r.Events)
                /\ seenIds' = seenIds \cup
                      {SubSeq(r.Events[i], 1, RecordIdLen) :
                          i \in {j \in 1..Len(r.Events) :
                                    Len(r.Events[j]) >= RecordIdLen}}
          /\ err' = ErrNone
          /\ pages' = pages + 1
          /\ attempts' = 0
          /\ UNCHANGED <<throttled, failedHard>>
       \/ /\ attempts < MaxFaults
          /\ err' = ErrThrottle
          /\ response' = EmptyResponse
          /\ throttled' = TRUE
          /\ attempts' = attempts + 1
          /\ UNCHANGED <<pages, stops, lastGiven, delivered, seenIds,
                         failedHard>>
       \/ /\ err' = ErrOther
          /\ response' = EmptyResponse
          /\ failedHard' = TRUE
          /\ attempts' = 0
          /\ UNCHANGED <<pages, stops, lastGiven, delivered, seenIds,
                         throttled>>
    /\ UNCHANGED fetched

\* a check of err made once, not in a loop: a second rate-limit fault passes
PageReadyLax(e) == e = ErrNone \/ e = ErrThrottle

\* line 230: the loop over err runs while err != nil
PageReady(e) == e = ErrNone

\* line 229: response, err := cwClient.GetLogEvents(input)
CwGetLogEvents ==
    /\ pc = "cw_call"
    /\ GetLogEvents(input)
    /\ pc' = "cw_err"
    /\ UNCHANGED <<config, mainVars, input, forwardToken, ei,
                   cwRecoredCounter, s3Vars, outVars>>

\* a retry that asks for the stream from its head again
RetryFromHead ==
    [api |-> "GetLogEvents", LogGroupName |-> logGroup,
     LogStreamName |-> prefix, NextToken |-> Nil, StartFromHead |-> TRUE]

\* the request the retry of line 234 sends
RetryInput == input

\* lines 230-234: a throttling error: sleep a second, call again
CwRetry ==
    /\ pc = "cw_err"
    /\ ~PageReady(err)
    /\ IsThrottling(err)
    /\ GetLogEvents(RetryInput)
    /\ UNCHANGED <<config, pc, mainVars, input, forwardToken, ei,
                   cwRecoredCounter, s3Vars, outVars>>

\* lines 230, 235-237: any other error ends the run
CwFatal ==
    /\ pc = "cw_err"
    /\ ~PageReady(err)
    /\ ~IsThrottling(err)
    /\ exitErrorf("Error occured to get the log events")
    /\ UNCHANGED <<config, mainVars, input, cwVars, s3Vars, destVars>>

\* line 230 with err == nil: on to the events of the page
CwGotPage ==
    /\ pc = "cw_err"
    /\ PageReady(err)
    /\ pc' = "cw_events"
    /\ ei' = 0
    /\ UNCHANGED <<config, mainVars, input, forwardToken, response, err,
                   cwRecoredCounter, s3Vars, destVars, outVars>>

\* lines 240-250: one event of the page
CwEvent ==
    /\ pc = "cw_events"
    /\ ei < Len(response.Events)
    /\ LET log == response.Events[ei + 1]
       IN  IF ~CanSlice(log)
           THEN /\ Panic("slice bounds out of range")
                /\ UNCHANGED <<cwRecoredCounter, inputMap, ei>>
           ELSE /\ cwRecoredCounter' = cwRecoredCounter + 1
                /\ inputMap' = Observe(inputMap, RecordIdOf(log))
                /\ ei' = ei + 1
                /\ UNCHANGED <<pc, outVars>>
    /\ UNCHANGED <<config, totalInputRecord, totalRecordFound, input,
                   forwardToken, response, err, s3Vars, destVars>>

\* the cursors compared as pointers: two allocations are never equal
CwAtEndNever(resp, token) == FALSE

\* the end of the stream taken to be a page without a cursor
CwAtEndAbsent(resp, token) == resp.NextForwardToken = Nil

\* line 253: the same NextForwardToken comes back at the end of the stream
CwAtEnd(resp, token) ==
    StringValue(resp.NextForwardToken) = StringValue(token)

\* lines 253-260 and 88: leave the loop and return the counter, or go on
\* with the cursor of the page
CwNextPage ==
    /\ pc = "cw_events"
    /\ ei = Len(response.Events)
    /\ IF CwAtEnd(response, forwardToken)
       THEN /\ totalRecordFound' = cwRecoredCounter
            /\ pc' = "results"
            /\ UNCHANGED forwardToken
       ELSE /\ forwardToken' = response.NextForwardToken
            /\ pc' = "cw_input"
            /\ UNCHANGED totalRecordFound
    /\ UNCHANGED <<config, totalInputRecord, inputMap, input, response, err,
                   ei, cwRecoredCounter, s3Vars, destVars, outVars>>

(***************************************************************************)
(* validate_s3                                                             *)
(***************************************************************************)
\* the non-empty fragments of a body, and the record ids among them
NonEmptyLines(body) ==
    {i \in 1..Len(Split(body)) : Split(body)[i] # <<>>}

IdsIn(body) ==
    {SubSeq(Split(body)[i][1].Log, 1, RecordIdLen) :
        i \in {j \in NonEmptyLines(body) :
                  /\ Len(Split(body)[j]) = 1
                  /\ Split(body)[j][1].kind = "json"
                  /\ Len(Split(body)[j][1].Log) >= RecordIdLen}}

\* lines 121-125: the listing request
S3InputFor(token) ==
    [api |-> "ListObjectsV2", Bucket |-> bucket, ContinuationToken |-> token,
     Prefix |-> prefix]

\* lines 121-130: list the next page of objects; any error ends the run
S3List ==
    /\ pc = "s3_list"
    /\ input' = S3InputFor(continuationToken)
    /\ sent' = input'
    /\ \/ /\ pages < MaxCalls
          /\ \E r \in S3Listings :
                /\ listing' = r
                /\ pages' = pages + 1
                /\ stops' = IF r.IsTruncated = Ptr(TRUE)
                            THEN stops ELSE stops + 1
                /\ lastGiven' = r.NextContinuationToken
          /\ fetched' = <<>>
          /\ ci' = 0
          /\ pc' = "s3_objects"
          /\ UNCHANGED <<throttled, failedHard, outVars>>
       \/ /\ \E e \in {ErrThrottle, ErrOther} :
                /\ throttled' = (throttled \/ e = ErrThrottle)
                /\ failedHard' = (failedHard \/ e = ErrOther)
          /\ exitErrorf("Error occured to get the objects from bucket")
          /\ UNCHANGED <<listing, ci, pages, stops, lastGiven, fetched>>
    /\ UNCHANGED <<config, mainVars, cwVars, continuationToken,
                   s3RecordCounter, s3ObjectCounter, delivered, seenIds,
                   attempts>>

RECURSIVE S3LinesSkipBad(_, _, _)
\* the loop going on to the next fragment after one that is no JSON
S3LinesSkipBad(data, n, m) ==
    IF data = <<>> THEN [counter |-> n, map |-> m, fault |-> ""]
    ELSE LET d       == Head(data)
             message == Unmarshal(d)
         IN  IF d = <<>> \/ message.err THEN S3LinesSkipBad(Tail(data), n, m)
             ELSE IF ~CanSlice(message.Log)
             THEN [counter |-> n, map |-> m,
                   fault |-> "slice bounds out of range"]
             ELSE S3LinesSkipBad(Tail(data), n + 1,
                                 Observe(m, RecordIdOf(message.Log)))

RECURSIVE S3Lines(_, _, _)
\* lines 147-166: the loop over the fragments of one object, from counter n
\* and map m, up to the end of the data or the fragment that ends the run
S3Lines(data, n, m) ==
    IF data = <<>> THEN [counter |-> n, map |-> m, fault |-> ""]
    ELSE LET d       == Head(data)
             message == Unmarshal(d)
         IN  IF d = <<>> THEN S3Lines(Tail(data), n, m)
             ELSE IF message.err
             THEN [counter |-> n, map |-> m, fault |-> "Json Unmarshal Error"]
             ELSE IF ~CanSlice(message.Log)
             THEN [counter |-> n, map |-> m,
                   fault |-> "slice bounds out of range"]
             ELSE S3Lines(Tail(data), n + 1,
                          Observe(m, RecordIdOf(message.Log)))

\* lines 132-166 and getS3Object, for one listed object: fetch it, read its
\* body, split it into lines and check every line; any error ends the run
S3GetObject ==
    /\ pc = "s3_objects"
    /\ ci < Len(listing.Contents)
    /\ input' = [api |-> "GetObject", Bucket |-> bucket,
                 Key |-> listing.Contents[ci + 1]]
    /\ sent' = input'
    /\ \/ /\ \E body \in Bodies :
                LET done == S3Lines(Split(body), s3RecordCounter, inputMap)
                IN  /\ delivered' = delivered + Cardinality(NonEmptyLines(body))
                    /\ seenIds' = seenIds \cup IdsIn(body)
                    /\ s3RecordCounter' = done.counter
                    /\ inputMap' = done.map
                    /\ IF done.fault = ""
                       THEN pc' = "s3_objects" /\ ci' = ci + 1
                            /\ UNCHANGED outVars
                       ELSE IF done.fault = "Json Unmarshal Error"
                       THEN exitErrorf(done.fault) /\ UNCHANGED ci
                       ELSE Panic(done.fault) /\ UNCHANGED ci
          /\ fetched' = Append(fetched, input'.Key)
          /\ s3ObjectCounter' = s3ObjectCounter + 1
          /\ UNCHANGED <<throttled, failedHard>>
       \/ /\ fetched' = Append(fetched, input'.Key)
          /\ s3ObjectCounter' = s3ObjectCounter + 1
          /\ exitErrorf("Error to parse GetObject response")
          /\ failedHard' = TRUE
          /\ UNCHANGED <<ci, s3RecordCounter, inputMap, delivered, seenIds,
                         throttled>>
       \/ /\ \E e \in {ErrThrottle, ErrOther} :
                /\ throttled' = (throttled \/ e = ErrThrottle)
                /\ failedHard' = (failedHard \/ e = ErrOther)
          /\ exitErrorf("Error occured to get s3 object")
          /\ UNCHANGED <<ci, s3RecordCounter, inputMap, delivered, seenIds,
                         fetched, s3ObjectCounter>>
    /\ UNCHANGED <<config, totalInputRecord, totalRecordFound, cwVars,
                   continuationToken, listing, pages, stops, lastGiven,
                   attempts>>

\* the end of the listing taken to be a page without objects
S3AtEndEmptyPage(l) == l.Contents = <<>>

\* the listing also left as soon as every expected record has been found
S3AtEndOrCovered(l) ==
    ~BoolValue(l.IsTruncated) \/ \A k \in DOMAIN inputMap : inputMap[k]

\* line 169: the listing was the last one
S3AtEnd(l) == ~BoolValue(l.IsTruncated)

\* lines 169-177 and 81: leave the loop, print the object count and return
\* the counter, or go on with the cursor of the listing
S3NextPage ==
    /\ pc = "s3_objects"
    /\ ci = Len(listing.Contents)
    /\ IF S3AtEnd(listing)
       THEN /\ stdout' = Append(stdout, <<"Total object in S3", s3ObjectCounter>>)
            /\ totalRecordFound' = s3RecordCounter
            /\ pc' = "results"
            /\ UNCHANGED continuationToken
       ELSE /\ continuationToken' = listing.NextContinuationToken
            /\ pc' = "s3_list"
            /\ UNCHANGED <<totalRecordFound, stdout>>
    /\ UNCHANGED <<config, totalInputRecord, inputMap, input, cwVars, listing,
                   ci, s3RecordCounter, s3ObjectCounter, destVars, stderr,
                   exitStatus>>

(***************************************************************************)
(* get_results                                                             *)
(***************************************************************************)
\* every entry of the map counted, whatever its flag
UniqueCountsKeys(m) == Cardinality(DOMAIN m)

\* lines 264-270
UniqueRecordFound(m) == Cardinality({k \in DOMAIN m : m[k]})

\* lines 272-277 up to the division, which panics for a count of zero
ResultHead(n, found, m) ==
    << <<"Total input record", n>>,
       <<"Total record in destination", found>>,
       <<"Unique record in destination", UniqueRecordFound(m)>>,
       <<"Duplicate records", found - UniqueRecordFound(m)>>,
       <<"Log Delay", logDelay>> >>

\* the percentage rounded up to the next integer
LogLossCeil(n, m) == ((n - UniqueRecordFound(m)) * 100 + n - 1) \div n

\* line 277
LogLoss(n, m) == GoDiv((n - UniqueRecordFound(m)) * 100, n)

\* lines 263-282, then main returns: exit status 0
GetResults ==
    /\ pc = "results"
    /\ IF totalInputRecord = 0
       THEN /\ stdout' = stdout \o
                    ResultHead(totalInputRecord, totalRecordFound, inputMap)
            /\ pc' = "Terminated"
            /\ stderr' = "integer divide by zero"
            /\ exitStatus' = ExitPanic
       ELSE /\ stdout' = stdout
                    \o ResultHead(totalInputRecord, totalRecordFound, inputMap)
                    \o << <<"Log Loss", LogLoss(totalInputRecord, inputMap)>> >>
                    \o (IF totalInputRecord # UniqueRecordFound(inputMap)
                        THEN << <<"Number of missing log records",
                                  totalInputRecord - UniqueRecordFound(inputMap)>> >>
                        ELSE <<>>)
            /\ pc' = "Terminated"
            /\ exitStatus' = 0
            /\ UNCHANGED stderr
    /\ UNCHANGED <<config, mainVars, input, cwVars, s3Vars, destVars>>

Next ==
    \/ CheckConfig
    \/ BuildInputMap
    \/ CheckLogDelay
    \/ Dispatch
    \/ S3List
    \/ S3GetObject
    \/ S3NextPage
    \/ CwBuildInput
    \/ CwGetLogEvents
    \/ CwRetry
    \/ CwFatal
    \/ CwGotPage
    \/ CwEvent
    \/ CwNextPage
    \/ GetResults

Spec == Init /\ [][Next]_vars

\* The process is the only one and runs until it exits: a step that can be
\* taken is taken, and time.Sleep returns.  The destination of the model
\* gives at most MaxFaults rate-limit faults in a row and at most MaxCalls
\* pages, and fails the call after the last of them.  The runs start with
\* a count of zero or of MaxN, or without one.
LiveInit ==
    /\ region \in EnvValues
    /\ bucket = "set"
    /\ logGroup = "set"
    /\ prefix = "set"
    /\ destination \in Destinations
    /\ inputRecord \in {<<>>, <<"0">>, Itoa(MaxN)}
    /\ logDelay \in ArgDelays
    /\ AtStart

LiveSpec == LiveInit /\ [][Next]_vars /\ WF_vars(Next)

(***************************************************************************)
(* A CloudWatch run over a stream of well-formed records that the          *)
(* destination gives in one page: the whole path of main, from the         *)
(* arguments to the result lines, for every stream of up to MaxLines       *)
(* records and every count up to MaxLines.                                 *)
(***************************************************************************)
LogFourth == Itoa(idCounterBase + 3) \o <<"_", "b">>

\* records of three expected ids and of one id no run expects
StreamLogs == {LogFirst, LogSecond, LogFourth, LogForeign}

Streams == SeqsUpTo(StreamLogs, MaxLines)

StreamInit ==
    /\ region = "set"
    /\ bucket = "set"
    /\ logGroup = "set"
    /\ prefix = "set"
    /\ destination = "cloudwatch"
    /\ inputRecord \in {Itoa(n) : n \in 1..MaxLines}
    /\ logDelay = "5"
    /\ AtStart

\* The destination answers request req with the whole stream and the cursor
\* of the request.
StreamGetLogEvents(req) ==
    /\ sent' = req
    /\ \E lines \in Streams :
          /\ response' = [Events |-> lines, NextForwardToken |-> req.NextToken]
          /\ delivered' = delivered + Len(lines)
          /\ seenIds' = seenIds \cup
                {SubSeq(lines[i], 1, RecordIdLen) : i \in 1..Len(lines)}
    /\ stops' = stops + 1
    /\ lastGiven' = req.NextToken
    /\ err' = ErrNone
    /\ pages' = pages + 1
    /\ attempts' = 0
    /\ UNCHANGED <<throttled, failedHard, fetched>>

\* line 229, answered with the stream
CwGetStream ==
    /\ pc = "cw_call"
    /\ StreamGetLogEvents(input)
    /\ pc' = "cw_err"
    /\ UNCHANGED <<config, mainVars, input, forwardToken, ei,
                   cwRecoredCounter, s3Vars, outVars>>

StreamNext ==
    \/ CheckConfig
    \/ BuildInputMap
    \/ CheckLogDelay
    \/ Dispatch
    \/ CwBuildInput
    \/ CwGetStream
    \/ CwGotPage
    \/ CwEvent
    \/ CwNextPage
    \/ GetResults

StreamSpec == StreamInit /\ [][StreamNext]_vars

(***************************************************************************)
(* Properties.                                                             *)
(***************************************************************************)
\* the validation of the destination has returned to main
CwFinished ==
    /\ destination = "cloudwatch"
    /\ pc = "results" \/ (pc = "Terminated" /\ stdout # <<>>)

S3Finished ==
    /\ destination = "s3"
    /\ pc = "results" \/ (pc = "Terminated" /\ stdout # <<>>)

\* the last answer of the destination was a page, not yet left behind
CwPageInHand == (pc = "cw_err" /\ err = ErrNone) \/ pc = "cw_events"

\* C1: the first GetLogEvents call carries no cursor, and the paging ends
\* exactly after the first page whose forward cursor equals the cursor of
\* its own request: no call is made after such a page, the program holds
\* such a page when it leaves the loop, and it never leaves the loop before.
\* (stops counts the pages given with a repeated cursor, pages all pages.)
C1_CursorRepeatStops ==
    destination = "cloudwatch" =>
        /\ (sent # NoRequest /\ (pages = 0 \/ (pages = 1 /\ CwPageInHand)))
              => sent.NextToken = Nil
        /\ pc \in {"cw_input", "cw_call"} => stops = 0
        /\ (pc = "cw_err" /\ err # ErrNone) => stops = 0
        /\ CwPageInHand =>
              stops = IF response.NextForwardToken = sent.NextToken
                      THEN 1 ELSE 0
        /\ CwFinished =>
              /\ stops = 1
              /\ response.NextForwardToken = sent.NextToken
              /\ pages >= 1

\* two pages with a new cursor, then one that repeats it: three calls
C1_Witness ==
    /\ CwFinished
    /\ pages = 3
    /\ stops = 1
    /\ sent.NextToken # Nil

\* C2: every ListObjectsV2 call carries the cursor of the listing before it
\* (none on the first call); the listing goes on while the page is truncated
\* and ends exactly after the first page that is not; and the objects fetched
\* for a page are the objects it lists, in order.
C2_ListUntilNotTruncated ==
    /\ [](destination = "s3" =>
            /\ pc = "s3_list" =>
                  /\ stops = 0
                  /\ pages > 0 =>
                        /\ listing.IsTruncated = Ptr(TRUE)
                        /\ fetched = listing.Contents
            /\ pc = "s3_objects" =>
                  /\ stops = IF listing.IsTruncated = Ptr(TRUE) THEN 0 ELSE 1
                  /\ fetched = SubSeq(listing.Contents, 1, ci)
            /\ S3Finished =>
                  /\ stops = 1
                  /\ listing.IsTruncated # Ptr(TRUE)
                  /\ fetched = listing.Contents
                  /\ pages >= 1)
    /\ [][pc = "s3_list" =>
            /\ sent'.api = "ListObjectsV2"
            /\ sent'.ContinuationToken = lastGiven]_vars

\* two truncated pages and a last one, with an object on the last page
C2_Witness ==
    /\ S3Finished
    /\ pages = 3
    /\ fetched # <<>>
    /\ s3ObjectCounter >= 2

\* the result lines a run over the pages given prints, from the counts of
\* the destination alone
RefUnique == Cardinality(seenIds \cap DOMAIN inputMap)

RefLoss(n, u) ==
    IF n > 0
    THEN CHOOSE q \in 0..100 : q * n <= (n - u) * 100 /\ (n - u) * 100 < (q + 1) * n
    ELSE 100

RefReport ==
    << <<"Total input record", totalInputRecord>>,
       <<"Total record in destination", delivered>>,
       <<"Unique record in destination", RefUnique>>,
       <<"Duplicate records", delivered - RefUnique>>,
       <<"Log Delay", logDelay>>,
       <<"Log Loss", RefLoss(totalInputRecord, RefUnique)>> >>
    \o (IF totalInputRecord # RefUnique
        THEN << <<"Number of missing log records",
                  totalInputRecord - RefUnique>> >>
        ELSE <<>>)

\* C3: a CloudWatch run that has met rate-limit faults ends as the run over
\* the same pages without them: it ends on the page that repeats the cursor,
\* has counted every event of the pages given once, has set the flag of
\* exactly the expected ids among them, and prints the same result lines.
C3_RetryTransparent ==
    CwFinished =>
        /\ stops = 1
        /\ totalRecordFound = delivered
        /\ \A k \in DOMAIN inputMap : inputMap[k] = (k \in seenIds)
        /\ exitStatus = 0 => stdout = RefReport

C3_Witness ==
    /\ CwFinished
    /\ throttled
    /\ exitStatus = 0
    /\ pages >= 2
    /\ delivered >= 2
    /\ RefUnique >= 1

\* C4: after a rate-limit fault the next step is the same request again
\* (group, stream, from-head flag, cursor), with the cursor, the map and the
\* counter as they were, however many faults came before.
C4_RetrySameRequest ==
    [][(pc = "cw_err" /\ err = ErrThrottle) =>
          /\ pc' = "cw_err"
          /\ sent' = sent
          /\ sent' = CwInputFor(forwardToken)
          /\ UNCHANGED <<forwardToken, input, inputMap, cwRecoredCounter,
                         totalRecordFound>>]_vars

\* the retry after MaxFaults faults in a row, on a call that carries a cursor
C4_Witness ==
    /\ pc = "cw_err"
    /\ attempts = MaxFaults
    /\ sent.NextToken # Nil
    /\ cwRecoredCounter > 0

\* C5 (as stated): in an S3 run a rate-limit fault of ListObjectsV2 or
\* GetObject does not end the run with the failure of that call.
C5_S3ThrottleRecovered ==
    (destination = "s3" /\ throttled) =>
        ~(/\ pc = "Terminated"
          /\ exitStatus = ExitError
          /\ stderr \in {"Error occured to get the objects from bucket",
                         "Error occured to get s3 object"})

\* C6: a fault of the destination that is no rate-limit fault ends the run:
\* the only step after it is the exit with status 1, which makes no call,
\* changes neither the map nor a counter and prints no result; also when the
\* fault is the answer to a retry.
C6_FatalFaultStops ==
    /\ [](failedHard =>
            /\ stdout = <<>>
            /\ \/ pc = "Terminated" /\ exitStatus = ExitError
               \/ pc = "cw_err" /\ err = ErrOther)
    /\ [][failedHard =>
            /\ pc' = "Terminated"
            /\ exitStatus' = ExitError
            /\ UNCHANGED <<sent, inputMap, totalRecordFound, cwRecoredCounter,
                           s3RecordCounter, stdout>>]_vars

\* the fatal fault came as the answer to a retry, after events were counted
C6_Witness ==
    /\ failedHard
    /\ throttled
    /\ pc = "Terminated"
    /\ destination = "cloudwatch"
    /\ sent.NextToken # Nil
    /\ cwRecoredCounter > 0

\* get_results has printed the count of the destination
Reported ==
    \E i \in 1..Len(stdout) : stdout[i][1] = "Total record in destination"

\* C7: the result is printed only after the destination has given its last
\* page (the listing that is not truncated, the page that repeats the
\* cursor), and the count printed is the number of non-empty lines / events
\* of all pages given, the last one included.
C7_ExhaustiveBeforeReport ==
    (Reported /\ destination \in {"s3", "cloudwatch"}) =>
        /\ stops = 1
        /\ totalRecordFound = delivered
        /\ \E i \in 1..Len(stdout) :
              stdout[i] = <<"Total record in destination", delivered>>
        /\ destination = "cloudwatch" =>
              response.NextForwardToken = sent.NextToken
        /\ destination = "s3" =>
              /\ listing.IsTruncated # Ptr(TRUE)
              /\ fetched = listing.Contents

\* every expected record was found on the way, and the reading went on
C7_Witness ==
    /\ Reported
    /\ destination = "s3"
    /\ totalInputRecord >= 1
    /\ \A k \in DOMAIN inputMap : inputMap[k]
    /\ pages >= 2
    /\ delivered > totalInputRecord

\* the map has been built
Built == pc \notin {"main", "build"}

\* C8: once built, the map keeps its key set (as many keys as the count, none
\* for a count below one), a flag that is true stays true, and a flag is true
\* only for an id the destination has handed out.
C8_UniverseFixedFlagsMonotone ==
    /\ [](Built =>
            /\ Cardinality(DOMAIN inputMap) =
                  IF totalInputRecord > 0 THEN totalInputRecord ELSE 0
            /\ \A k \in DOMAIN inputMap : inputMap[k] => k \in seenIds)
    /\ [][Built =>
            /\ DOMAIN inputMap' = DOMAIN inputMap
            /\ \A k \in DOMAIN inputMap : inputMap[k] => inputMap'[k]]_vars

\* a flag is set and an id outside the map was handed out
C8_Witness ==
    /\ pc = "Terminated"
    /\ exitStatus = 0
    /\ \E k \in DOMAIN inputMap : inputMap[k]
    /\ \E id \in seenIds : id \notin DOMAIN inputMap

\* k is the decimal numeral of v
IsDecimalOf(k, v) ==
    /\ Len(k) >= 1
    /\ \A i \in 1..Len(k) : IsDigit(k[i])
    /\ Len(k) > 1 => k[1] # "0"
    /\ DigitsVal(k) = v

\* C9: for a count N >= 1, as long as no call has been made to the
\* destination the built map has exactly N keys, the decimal numerals of
\* 10000000 + i for i in 0..N-1, all with the flag false; and no call is
\* made before the map is built.
C9_BuildUniverse ==
    /\ ~Built => sent = NoRequest
    /\ (Built /\ totalInputRecord >= 1 /\ sent = NoRequest) =>
          /\ Cardinality(DOMAIN inputMap) = totalInputRecord
          /\ \A i \in 0..(totalInputRecord - 1) :
                \E k \in DOMAIN inputMap : IsDecimalOf(k, idCounterBase + i)
          /\ \A k \in DOMAIN inputMap : inputMap[k] = FALSE

C9_Witness ==
    /\ pc = "dispatch"
    /\ totalInputRecord = MaxN
    /\ destination = "s3"

\* C10: a step that checks an event whose id is a key of the map adds one to
\* the counter and leaves the map with that flag true and every other entry
\* as it was; when the flag was true already the map is unchanged.  For an
\* S3 object the lines are checked in one step: the counter grows by the
\* number of lines and a flag changes only from false to true, for an id of
\* the object.
C10_ObserveKnownId ==
    [][/\ (pc = "cw_events" /\ ei' = ei + 1) =>
            LET id == SubSeq(response.Events[ei + 1], 1, RecordIdLen)
            IN  id \in DOMAIN inputMap =>
                    /\ cwRecoredCounter' = cwRecoredCounter + 1
                    /\ DOMAIN inputMap' = DOMAIN inputMap
                    /\ inputMap'[id] = TRUE
                    /\ \A k \in DOMAIN inputMap \ {id} :
                          inputMap'[k] = inputMap[k]
                    /\ inputMap[id] => inputMap' = inputMap
       /\ (pc = "s3_objects" /\ ci' = ci + 1) =>
            /\ s3RecordCounter' - s3RecordCounter = delivered' - delivered
            /\ DOMAIN inputMap' = DOMAIN inputMap
            /\ \A k \in DOMAIN inputMap :
                  /\ inputMap[k] => inputMap'[k]
                  /\ inputMap'[k] => (inputMap[k] \/ k \in seenIds')]_vars

\* the same expected id checked twice: the counter is 2, its flag is true
C10_Witness ==
    /\ destination = "cloudwatch"
    /\ pc = "cw_events"
    /\ cwRecoredCounter = 2
    /\ delivered = 2
    /\ seenIds = {SubSeq(LogFirst, 1, RecordIdLen)}
    /\ Cardinality(DOMAIN inputMap) = 2
    /\ inputMap[SubSeq(LogFirst, 1, RecordIdLen)]

\* C11: a step that checks an event whose id is no key of the map adds one
\* to the counter and leaves the map as it was: no entry is added and no flag
\* changes.  For an S3 object of one line whose id was not handed out before
\* and is no key of the map, the same.
C11_ObserveUnknownId ==
    [][/\ (pc = "cw_events" /\ ei' = ei + 1) =>
            LET id == SubSeq(response.Events[ei + 1], 1, RecordIdLen)
            IN  id \notin DOMAIN inputMap =>
                    /\ cwRecoredCounter' = cwRecoredCounter + 1
                    /\ inputMap' = inputMap
       /\ (/\ pc = "s3_objects"
           /\ ci' = ci + 1
           /\ delivered' = delivered + 1
           /\ seenIds' # seenIds
           /\ (seenIds' \ seenIds) \cap DOMAIN inputMap = {}) =>
            /\ s3RecordCounter' = s3RecordCounter + 1
            /\ inputMap' = inputMap]_vars

\* an id that is no key of a map of MaxN keys has been checked
C11_Witness ==
    /\ destination = "cloudwatch"
    /\ pc = "cw_events"
    /\ ei = 1
    /\ totalInputRecord = MaxN
    /\ SubSeq(LogForeign, 1, RecordIdLen) \in seenIds
    /\ cwRecoredCounter = delivered
    /\ DOMAIN inputMap \cap seenIds = {}
    /\ \A k \in DOMAIN inputMap : ~inputMap[k]

\* the lines counted so far by the validation that runs
LinesSeen == cwRecoredCounter + s3RecordCounter

\* C12 (as stated): once the map is built the number of flags that are true
\* is at most the number of lines counted and at most the record count, so
\* the duplicate count, lines counted minus flags true, is never negative.
C12_UniqueBounded ==
    Built =>
        /\ UniqueRecordFound(inputMap) <= LinesSeen
        /\ UniqueRecordFound(inputMap) <= totalInputRecord
        /\ LinesSeen - UniqueRecordFound(inputMap) >= 0
        /\ \A i \in 1..Len(stdout) :
              stdout[i][1] = "Duplicate records" => stdout[i][2] >= 0

\* the values printed with a label
Printed(label) == {stdout[i][2] : i \in {j \in 1..Len(stdout) : stdout[j][1] = label}}

\* the flags that are true in the map
FlagsTrue == {k \in DOMAIN inputMap : inputMap[k]}

\* C13: for a count N > 0 a run that ends with status 0 has printed one Log
\* Loss value q, the integer quotient of (N - unique) * 100 by N for the
\* number of true flags of the final map: q is in 0..100, 0 when every flag
\* is true and 100 when none is; and it has printed the number of missing
\* records, N - unique, exactly when that number is not zero.
C13_LossPercent ==
    (pc = "Terminated" /\ exitStatus = 0 /\ totalInputRecord > 0) =>
        LET n == totalInputRecord
            u == Cardinality(FlagsTrue)
        IN  /\ Cardinality(Printed("Log Loss")) = 1
            /\ \A q \in Printed("Log Loss") :
                  /\ q \in 0..100
                  /\ q * n <= (n - u) * 100
                  /\ (n - u) * 100 < (q + 1) * n
                  /\ u = n => q = 0
                  /\ u = 0 => q = 100
            /\ Printed("Number of missing log records") =
                  IF n - u # 0 THEN {n - u} ELSE {}
            /\ stdout[Len(stdout)][1] =
                  IF n - u # 0 THEN "Number of missing log records"
                  ELSE "Log Loss"

\* one record of three found: the quotient 200 / 3 is cut to 66
C13_Witness ==
    /\ pc = "Terminated"
    /\ exitStatus = 0
    /\ totalInputRecord = 3
    /\ Cardinality(FlagsTrue) = 1
    /\ Printed("Log Loss") = {66}
    /\ Printed("Number of missing log records") = {2}

\* the reference reconciliation of a stream of well-formed lines against the
\* count n: the expected ids are the numerals of 10000000 + i for i < n
StreamUnique(lines, n) ==
    Cardinality({i \in 0..(n - 1) :
        \E j \in 1..Len(lines) :
            IsDecimalOf([c \in 1..8 |-> lines[j][c]], idCounterBase + i)})

StreamReport(lines, n) ==
    LET total  == Len(lines)
        unique == StreamUnique(lines, n)
    IN  << <<"Total input record", n>>,
           <<"Total record in destination", total>>,
           <<"Unique record in destination", unique>>,
           <<"Duplicate records", total - unique>>,
           <<"Log Delay", logDelay>>,
           <<"Log Loss", RefLoss(n, unique)>> >>
        \o (IF n - unique # 0
            THEN << <<"Number of missing log records", n - unique>> >>
            ELSE <<>>)

\* the ids 10000000, 10000001, 10000001, 10000003, 99999999
ScenarioLines == <<LogFirst, LogSecond, LogSecond, LogFourth, LogForeign>>

\* C14: a run over a stream of well-formed lines prints the result lines of
\* the reference computation on that stream and the count; for the count 5
\* and the ids 10000000, 10000001, 10000001, 10000003, 99999999 these are 5
\* lines seen, 3 unique, 2 duplicates, a loss of 40 percent and 2 missing.
C14_EndToEnd ==
    (pc = "Terminated" /\ exitStatus = 0) =>
        /\ stdout = StreamReport(response.Events, totalInputRecord)
        /\ totalRecordFound = Len(response.Events)
        /\ (response.Events = ScenarioLines /\ totalInputRecord = 5) =>
              stdout = << <<"Total input record", 5>>,
                          <<"Total record in destination", 5>>,
                          <<"Unique record in destination", 3>>,
                          <<"Duplicate records", 2>>,
                          <<"Log Delay", "5">>,
                          <<"Log Loss", 40>>,
                          <<"Number of missing log records", 2>> >>

\* the run over the five lines has printed its result
C14_Witness ==
    /\ pc = "Terminated"
    /\ exitStatus = 0
    /\ totalInputRecord = 5
    /\ response.Events = ScenarioLines
    /\ cwRecoredCounter = 5
    /\ Printed("Log Loss") = {40}

\* the first argument is there and is no count: zero, negative, no number
InvalidCount ==
    /\ inputRecord # <<>>
    /\ Atoi(inputRecord).err \/ Atoi(inputRecord).val <= 0

\* C15 (as stated): a run with an invalid count makes no call to the
\* destination, never comes to get_results, prints no result and ends, if
\* it ends, with a failure status.
C15_InvalidCountRejected ==
    InvalidCount =>
        /\ sent = NoRequest
        /\ pc # "results"
        /\ ~Reported
        /\ pc = "Terminated" => exitStatus # 0

\* a text that can be the JSON of a Message begins with a brace; no text of
\* Logs does
IsJsonObjectText(text) == text # <<>> /\ text[1] = "{"

BadEnvelope(f) == f # <<>> /\ ~(Len(f) = 1 /\ f[1].kind = "json")

\* a fragment that is the JSON of a Message with a Log too short for an id
ShortPayload(f) ==
    /\ Len(f) = 1
    /\ f[1].kind = "json"
    /\ Len(f[1].Log) < 8

\* the first fragment of the body that is faulty, 0 when there is none
FirstFaulty(body) ==
    LET frags == Split(body)
        bad   == {i \in 1..Len(frags) :
                     BadEnvelope(frags[i]) \/ ShortPayload(frags[i])}
    IN  IF bad = {} THEN 0
        ELSE CHOOSE i \in bad : \A j \in bad : i <= j

\* the non-empty fragments before fragment i, and their ids
LinesBefore(body, i) == {j \in NonEmptyLines(body) : j < i}

IdsBefore(body, i) ==
    {[c \in 1..8 |-> Split(body)[j][1].Log[c]] : j \in LinesBefore(body, i)}

\* bodies long enough to hold lines before and after a faulty one; the loop
\* over the lines is applied to them before the first object is read
LongBodies == SeqsUpTo(Pieces, MaxBody + 2)

Flagged(m, ids) == [k \in DOMAIN m |-> m[k] \/ k \in ids]

\* C17: an event or a line whose text is shorter than 8 characters, the
\* empty text included, ends the run with a failure status: it is not
\* counted, the map is as before it, and no result is printed.  A text of 8
\* or more characters is counted and checked by its first 8 characters.  In
\* an S3 object the lines before the short one are counted and checked, the
\* short one and the lines after it are not.
C17_ShortPayloadFault ==
    /\ [][(pc = "cw_events" /\ ei < Len(response.Events)) =>
            LET log == response.Events[ei + 1]
            IN  IF Len(log) < 8
                THEN /\ pc' = "Terminated"
                     /\ exitStatus' \notin {-1, 0}
                     /\ cwRecoredCounter' = cwRecoredCounter
                     /\ inputMap' = inputMap
                     /\ stdout' = <<>>
                ELSE /\ pc' = "cw_events"
                     /\ cwRecoredCounter' = cwRecoredCounter + 1
                     /\ inputMap' =
                           Flagged(inputMap, {[c \in 1..8 |-> log[c]]})]_vars
    /\ []((stderr = "slice bounds out of range" /\ destination = "s3") =>
            /\ pc = "Terminated"
            /\ exitStatus \notin {-1, 0}
            /\ stdout = <<>>
            /\ s3RecordCounter < delivered
            /\ \A k \in DOMAIN inputMap : inputMap[k] => k \in seenIds)
    /\ []((pc = "s3_objects" /\ s3ObjectCounter = 0) =>
            \A body \in LongBodies :
                LET i    == FirstFaulty(body)
                    done == S3Lines(Split(body), s3RecordCounter, inputMap)
                IN  /\ (i > 0 /\ ShortPayload(Split(body)[i])) =>
                          /\ done.fault = "slice bounds out of range"
                          /\ done.counter = s3RecordCounter
                                + Cardinality(LinesBefore(body, i))
                          /\ done.map =
                                Flagged(inputMap, IdsBefore(body, i))
                    /\ i = 0 =>
                          /\ done.fault = ""
                          /\ done.counter = s3RecordCounter
                                + Cardinality(NonEmptyLines(body))
                          /\ done.map =
                                Flagged(inputMap,
                                        IdsBefore(body, Len(Split(body)) + 1)))

\* a text of seven characters ended a run that had counted and found records
C17_Witness ==
    /\ destination = "cloudwatch"
    /\ pc = "Terminated"
    /\ stderr = "slice bounds out of range"
    /\ exitStatus = ExitPanic
    /\ response.Events[ei + 1] = LogShort
    /\ cwRecoredCounter >= 1
    /\ delivered = cwRecoredCounter + 1
    /\ \E k \in DOMAIN inputMap : inputMap[k]
    /\ stdout = <<>>

\* the destination has signalled the end of the data and what is left of the
\* page in hand can be checked
CwEndInHand ==
    /\ destination = "cloudwatch"
    /\ CwPageInHand
    /\ stops = 1
    /\ \A i \in 1..Len(response.Events) : Len(response.Events[i]) >= 8

S3EndInHand ==
    /\ destination = "s3"
    /\ pc = "s3_objects"
    /\ stops = 1
    /\ ci = Len(listing.Contents)

\* C18: every run ends; it ends with status 0 after printing the result
\* once, or with a failure status; once the destination has signalled the
\* end of the data and the page in hand is checked the result is printed;
\* and a CloudWatch run that has just met a rate-limit fault stays in the
\* retry loop, without a result and without an exit.
C18_Termination ==
    /\ <>(pc = "Terminated")
    /\ [](Cardinality({i \in 1..Len(stdout) :
              stdout[i][1] = "Total record in destination"}) <= 1)
    /\ [](pc = "Terminated" =>
            \/ exitStatus = 0 /\ Reported /\ Printed("Log Loss") # {}
            \/ exitStatus \in {ExitError, ExitPanic})
    /\ (CwEndInHand ~> Reported)
    /\ (S3EndInHand ~> Reported)
    /\ [][(pc = "cw_err" /\ err = ErrThrottle) =>
            /\ pc' = "cw_err"
            /\ exitStatus' = -1
            /\ stdout' = <<>>]_vars

\* a run that met rate-limit faults has ended with its result
C18_Witness ==
    /\ pc = "Terminated"
    /\ exitStatus = 0
    /\ throttled
    /\ pages = MaxCalls
    /\ Reported

OtherDestination == destination \notin {"", "s3", "cloudwatch"}

\* the environment and the arguments pass the checks of main
ConfigGiven ==
    /\ region # ""
    /\ bucket # ""
    /\ logGroup # ""
    /\ prefix # ""
    /\ inputRecord # <<>>
    /\ logDelay # ""

\* C20: with a destination that is neither "s3" nor "cloudwatch" no call is
\* made and no flag is ever true; from the choice of the destination the
\* run goes on to get_results; and for a count N > 0 it ends with status 0,
\* having printed N records expected, 0 in the destination, 0 unique, 0
\* duplicates, a loss of 100 percent and N missing.
C20_OtherDestination ==
    /\ [](OtherDestination =>
            /\ sent = NoRequest
            /\ pages = 0
            /\ delivered = 0
            /\ \A k \in DOMAIN inputMap : ~inputMap[k]
            /\ pc \in {"main", "build", "delay", "dispatch", "results",
                       "Terminated"}
            /\ (pc = "Terminated" /\ ConfigGiven /\ totalInputRecord > 0) =>
                  /\ exitStatus = 0
                  /\ stderr = ""
                  /\ stdout =
                        << <<"Total input record", totalInputRecord>>,
                           <<"Total record in destination", 0>>,
                           <<"Unique record in destination", 0>>,
                           <<"Duplicate records", 0>>,
                           <<"Log Delay", logDelay>>,
                           <<"Log Loss", 100>>,
                           <<"Number of missing log records",
                             totalInputRecord>> >>)
    /\ [][(OtherDestination /\ pc = "dispatch") =>
            pc' = "results" /\ exitStatus' = -1]_vars

\* the run with the destination "kinesis" and MaxN records has ended
C20_Witness ==
    /\ destination = "kinesis"
    /\ pc = "Terminated"
    /\ exitStatus = 0
    /\ totalInputRecord = MaxN
    /\ Printed("Log Loss") = {100}
    /\ Printed("Total record in destination") = {0}

====
